---- MODULE Spec2Model ----
(***************************************************************************)
(* photomise: the project store (events, photos, settings), the shared     *)
(* store (locations) and the commands that write them.                     *)
(*                                                                         *)
(* Units.  Time is counted in ticks of 30 minutes since an epoch that is   *)
(* midnight UTC (pendulum.parse and pendulum.from_timestamp both give UTC).*)
(* Coordinates are points of a 100 m grid; great_circle is the planar      *)
(* distance on that grid and is carried squared, which keeps every         *)
(* comparison the code makes.  A coordinate of 0 stands for a value the    *)
(* code finds falsy (None or 0.0).  Names are sequences of characters, so  *)
(* that sanitize_text is computed and not assumed.  An absent value (None) *)
(* of a name or of a path is the empty sequence.                           *)
(***************************************************************************)
EXTENDS Integers, Sequences, FiniteSets, TLC

VARIABLES
    locations,   \* shared store, table "locations": sequence of documents
    events,      \* project store, table "events"
    photos,      \* project store, table "photos"
    settings,    \* project store, table "settings"
    rankings,    \* project store, table "rankings"
    posts,       \* project store, table "posts"
    last         \* the last operation: its arguments, results and outcome

vars == <<locations, events, photos, settings, rankings, posts, last>>

None == <<>>

-----------------------------------------------------------------------------
(* Sequence helpers *)

Range(s) == {s[i] : i \in 1..Len(s)}

RECURSIVE RemoveFirst(_, _)
\* list.remove(x): drops the first occurrence (the caller knows x is present)
RemoveFirst(s, x) ==
    IF s = <<>> THEN <<>>
    ELSE IF Head(s) = x THEN Tail(s)
    ELSE <<Head(s)>> \o RemoveFirst(Tail(s), x)

Min(S) == CHOOSE x \in S : \A y \in S : x <= y

Abs(n) == IF n < 0 THEN -n ELSE n

-----------------------------------------------------------------------------
(* TinyDB tables: a table is the sequence of its documents in doc_id order *)

\* dict.update(fields): the fields given overwrite, the others stay
MergeFields(doc, fields) ==
    [k \in (DOMAIN doc) \cup (DOMAIN fields) |->
        IF k \in DOMAIN fields THEN fields[k] ELSE doc[k]]

\* a condition `query.field == value` on a document; a document without the
\* field does not match
Matches(doc, field, value) == field \in DOMAIN doc /\ doc[field] = value

\* Table.update(fields, cond): every matching document is merged with fields
TableUpdate(table, fields, field, value) ==
    [i \in 1..Len(table) |->
        IF Matches(table[i], field, value)
        THEN MergeFields(table[i], fields) ELSE table[i]]

TableUpsertInserts(table, doc, field, value) == Append(table, doc)

\* Table.upsert(document, cond): update the matching documents, insert if none
TableUpsert(table, doc, field, value) ==
    IF \E i \in 1..Len(table) : Matches(table[i], field, value)
    THEN TableUpdate(table, doc, field, value)
    ELSE Append(table, doc)

\* Table.get(cond): the first matching document, None when there is none
TableGet(table, field, value) ==
    IF \E i \in 1..Len(table) : Matches(table[i], field, value)
    THEN <<table[Min({i \in 1..Len(table) : Matches(table[i], field, value)})]>>
    ELSE None

\* Table.search(cond): the matching documents in storage order
TableSearch(table, field, value) ==
    SelectSeq(table, LAMBDA d : Matches(d, field, value))

-----------------------------------------------------------------------------
(* Shared store: locations *)

DefaultMaxDistance == 5      \* max_distance_km = 0.5, in units of 100 m

Lats == {1, 4, 7}
Lons == {1, 5}

Pk == <<"P", "k">>
OT == <<"O", " ", "T">>

\* great_circle(a, b).kilometers, squared, in (100 m)^2
Distance2(lat1, lon1, lat2, lon2) ==
    (lat1 - lat2) * (lat1 - lat2) + (lon1 - lon2) * (lon1 - lon2)

RECURSIVE FindLocationLeq(_, _, _, _, _, _)
FindLocationLeq(locs, i, latitude, longitude, closest_location, closest_distance2) ==
    IF i > Len(locs) THEN closest_location
    ELSE LET distance2 == Distance2(latitude, longitude,
                                    locs[i].latitude, locs[i].longitude)
         IN IF distance2 <= closest_distance2
            THEN FindLocationLeq(locs, i + 1, latitude, longitude,
                                 locs[i].name, distance2)
            ELSE FindLocationLeq(locs, i + 1, latitude, longitude,
                                 closest_location, closest_distance2)

RECURSIVE FindLocationScan(_, _, _, _, _, _)
\* the loop of find_location from document i on
FindLocationScan(locs, i, latitude, longitude, closest_location, closest_distance2) ==
    IF i > Len(locs) THEN closest_location
    ELSE LET distance2 == Distance2(latitude, longitude,
                                    locs[i].latitude, locs[i].longitude)
         IN IF distance2 < closest_distance2
            THEN FindLocationScan(locs, i + 1, latitude, longitude,
                                  locs[i].name, distance2)
            ELSE FindLocationScan(locs, i + 1, latitude, longitude,
                                  closest_location, closest_distance2)

find_location(locs, latitude, longitude, max_distance) ==
    FindLocationScan(locs, 1, latitude, longitude, None, max_distance * max_distance)

is_location(locs, lat, lon) ==
    Len(SelectSeq(locs, LAMBDA d : d.latitude = lat /\ d.longitude = lon)) > 0

get_location_coord(locs, lat, lon) ==
    LET found == SelectSeq(locs, LAMBDA d : d.latitude = lat /\ d.longitude = lon)
    IN IF found = <<>> THEN None ELSE <<found[1]>>

\* upsert_location reads params["location_name"]: a KeyError without that key
upsert_location_raises(params) == "location_name" \notin DOMAIN params

upsert_location(locs, params) ==
    TableUpsert(locs,
                [name |-> params.location_name,
                 latitude |-> params.latitude,
                 longitude |-> params.longitude],
                "name", params.location_name)

-----------------------------------------------------------------------------
(* Project store: settings *)

\* the settings property: the first document of the table, {} when it is empty
settings_doc(table) == IF Len(table) > 0 THEN table[1] ELSE [x \in {} |-> 0]

\* settings.get(key) as a truth value (None and a missing key are falsy)
SettingOn(table, key) ==
    key \in DOMAIN settings_doc(table) /\ settings_doc(table)[key] = TRUE

\* settings.get("quality"); 0 stands for None
SettingQuality(table) ==
    IF "quality" \in DOMAIN settings_doc(table)
    THEN settings_doc(table).quality ELSE 0

\* upsert_settings: the condition tests the field "doc_id" of the documents,
\* a field no settings document carries (the id is not part of the document)
upsert_settings(table, doc) ==
    TableUpsert(table, doc, "doc_id", 1)

-----------------------------------------------------------------------------
(* Project store: photos *)

main_path == <<"proj">>

\* file_path = f"{dir}/{file}" for a file of {main_path}/assets
FilePath(f) == main_path \o <<"assets", f>>

RECURSIVE IsPrefix(_, _)
IsPrefix(p, s) ==
    \/ p = <<>>
    \/ s # <<>> /\ Head(p) = Head(s) /\ IsPrefix(Tail(p), Tail(s))

\* os.path.relpath(file_path, project_path) for a path below project_path
convert_to_relative_path(file_path, project_path) ==
    IF IsPrefix(project_path, file_path)
    THEN SubSeq(file_path, Len(project_path) + 1, Len(file_path))
    ELSE file_path

get_photo(table, path) == TableGet(table, "path", path)

upsert_photo(table, photo) ==
    TableUpsert(table, photo, "path", photo.path)

\* photo_record.get(key, default)
RecordGet(record, key, default) ==
    IF record # None /\ key \in DOMAIN record[1] THEN record[1][key] ELSE default

\* process.py 173-176: the path the record is written under
PathWritten(need_to_convert_path, file_path, relative_path) ==
    IF need_to_convert_path THEN file_path ELSE relative_path

\* The body of the loop of the images command for one file.  `answers` holds
\* what the operator enters: okay (the image looks okay at once), quality,
\* rotation, brightness (filter "Custom", the other factors left at their
\* defaults; 0 = filter "None"), description, flavor.
ImagesPhoto(f, view, all, answers) ==
    LET file_path == FilePath(f)
        relative_path == convert_to_relative_path(file_path, main_path)
        by_relative == get_photo(photos, relative_path)
        need_to_convert_path == by_relative = None
        photo_record == IF by_relative # None THEN by_relative
                        ELSE get_photo(photos, file_path)
        rotation0 == RecordGet(photo_record, "rotation", 0)
        quality0 == RecordGet(photo_record, "quality", SettingQuality(settings))
        description0 == RecordGet(photo_record, "description", "")
        flavor0 == RecordGet(photo_record, "flavor", "")
        brightness0 == RecordGet(photo_record, "brightness", 10)
        contrast0 == RecordGet(photo_record, "contrast", 10)
        color0 == RecordGet(photo_record, "color", 10)
        sharpness0 == RecordGet(photo_record, "sharpness", 10)
        edit == (view \/ all) /\ ~answers.okay
        custom == edit /\ answers.brightness # 0
        no_filter == edit /\ answers.brightness = 0
        description == IF (SettingOn(settings, "description") /\ description0 = "") \/ all
                       THEN answers.description ELSE description0
        flavor == IF (SettingOn(settings, "flavor") /\ flavor0 = "") \/ all
                  THEN answers.flavor ELSE flavor0
    IN [path |-> PathWritten(need_to_convert_path, file_path, relative_path),
        description |-> description,
        flavor |-> flavor,
        rotation |-> IF edit THEN answers.rotation ELSE rotation0,
        quality |-> IF edit THEN answers.quality ELSE quality0,
        brightness |-> IF custom THEN answers.brightness
                       ELSE IF no_filter THEN 10 ELSE brightness0,
        contrast |-> IF no_filter THEN 10 ELSE contrast0,
        color |-> IF no_filter THEN 10 ELSE color0,
        sharpness |-> IF no_filter THEN 10 ELSE sharpness0]

\* where the record of file f is found before the step
FoundUnder(f) ==
    IF get_photo(photos, convert_to_relative_path(FilePath(f), main_path)) # None
    THEN "relative"
    ELSE IF get_photo(photos, FilePath(f)) # None THEN "file_path" ELSE "none"

-----------------------------------------------------------------------------
(* Project store: events *)

TicksPerHour == 2
TicksPerDay == 24 * TicksPerHour

MaxTimeDeltaInHours == 8     \* max_time_delta_in_hours: int = 8

InHoursRoundedUp(ticks) == (ticks + TicksPerHour - 1) \div TicksPerHour

\* Duration.in_hours(): the whole hours of a non-negative duration
in_hours(ticks) == ticks \div TicksPerHour

\* date.diff(db_date).in_hours(): diff is absolute by default
HoursBetween(date, db_date) == in_hours(Abs(date - db_date))

RECURSIVE SameEventSigned(_, _, _, _, _)
SameEventSigned(evs, i, date, location, max_hours) ==
    IF i > Len(evs) THEN [date |-> date, event |-> None, same |-> FALSE]
    ELSE IF (date - evs[i].date) \div TicksPerHour < max_hours
            /\ location = evs[i].location
         THEN [date |-> evs[i].date, event |-> evs[i].event, same |-> TRUE]
         ELSE SameEventSigned(evs, i + 1, date, location, max_hours)

RECURSIVE SameEventScan(_, _, _, _, _)
\* the loop of same_event from document i on
SameEventScan(evs, i, date, location, max_hours) ==
    IF i > Len(evs) THEN [date |-> date, event |-> None, same |-> FALSE]
    ELSE IF HoursBetween(date, evs[i].date) < max_hours
            /\ location = evs[i].location
         THEN [date |-> evs[i].date, event |-> evs[i].event, same |-> TRUE]
         ELSE SameEventScan(evs, i + 1, date, location, max_hours)

same_event(evs, date, location) ==
    SameEventScan(evs, 1, date, location, MaxTimeDeltaInHours)

\* is_event: the documents whose date is the timestamp (truthy when not empty)
is_event(evs, date) == TableSearch(evs, "date", date)

item_duplicate(evs, locs, date, lat, lon) ==
    Len(is_event(evs, date)) > 0 /\ is_location(locs, lat, lon)

get_event(evs, event_name) == TableGet(evs, "event", event_name)

find_events_with_photo(evs, photo_path) ==
    SelectSeq(evs, LAMBDA d : photo_path \in Range(d.photos))

\* upsert_event(event, path): path = None when the caller gives none
upsert_event(evs, event, path) ==
    LET doc == IF path # None
               THEN MergeFields(event, [photos |-> event.photos \o <<path>>])
               ELSE event
    IN TableUpsert(evs, doc, "event", doc.event)

-----------------------------------------------------------------------------
(* Operator selections: what inquirer returns, or what a caller passes     *)

Digits == {"0", "1", "2", "3", "4", "5", "6", "7", "8", "9"}

DigitVal(c) ==
    CASE c = "0" -> 0 [] c = "1" -> 1 [] c = "2" -> 2 [] c = "3" -> 3
      [] c = "4" -> 4 [] c = "5" -> 5 [] c = "6" -> 6 [] c = "7" -> 7
      [] c = "8" -> 8 [] c = "9" -> 9

\* str.isdigit()
isdigit(s) == s # <<>> /\ \A i \in 1..Len(s) : s[i] \in Digits

RECURSIVE DigitsValue(_, _)
DigitsValue(s, acc) ==
    IF s = <<>> THEN acc ELSE DigitsValue(Tail(s), 10 * acc + DigitVal(Head(s)))

\* int(s) for a string: a ValueError unless an optional sign and digits
IntRaises(s) ==
    ~ (isdigit(s) \/ (Len(s) > 1 /\ s[1] = "-" /\ isdigit(Tail(s))))

IntOfStr(s) == IF s[1] = "-" THEN - DigitsValue(Tail(s), 0) ELSE DigitsValue(s, 0)

\* A keep_idx argument: kind "none" (None), "int" (n) or "str" (s)
KeepNone == [kind |-> "none", n |-> 0, s |-> <<>>]
KeepInt(n) == [kind |-> "int", n |-> n, s |-> <<>>]
KeepStr(s) == [kind |-> "str", n |-> 0, s |-> s]

\* `if keep_idx:`
Truthy(keep) ==
    CASE keep.kind = "none" -> FALSE
      [] keep.kind = "int" -> keep.n # 0
      [] keep.kind = "str" -> keep.s # <<>>

KeepIntRaises(keep) == keep.kind = "str" /\ IntRaises(keep.s)

KeepIntValue(keep) == IF keep.kind = "int" THEN keep.n ELSE IntOfStr(keep.s)

\* events[i] of a Python list, i counted from 0, negative from the end
ListIndexRaises(list, i) == i >= Len(list) \/ i < - Len(list)

ListIndex(list, i) == IF i >= 0 THEN list[i + 1] ELSE list[Len(list) + i + 1]

RECURSIVE RemoveFromOthers(_, _, _, _)
\* the loop of remove_photo_from_event over the events given
RemoveFromOthers(evs, list, photo_path, keep_name) ==
    IF list = <<>> THEN evs
    ELSE LET event == Head(list)
             next == IF event.event # keep_name
                     THEN TableUpdate(evs,
                              [photos |-> RemoveFirst(event.photos, photo_path)],
                              "event", event.event)
                     ELSE evs
         IN RemoveFromOthers(next, Tail(list), photo_path, keep_name)

\* remove_photo_from_event raises before it changes anything
remove_photo_raises(list, keep) ==
    Truthy(keep) /\ (KeepIntRaises(keep)
                     \/ ListIndexRaises(list, KeepIntValue(keep) - 1))

RemovePhotoKeepFirst(evs, list, photo_path, keep) ==
    IF remove_photo_raises(list, keep) THEN evs
    ELSE RemoveFromOthers(evs, list, photo_path, list[1].event)

\* remove_photo_from_event(events, photo_path, keep_idx); the name of the
\* event kept is None when keep_idx is falsy, and no event has that name
remove_photo_from_event(evs, list, photo_path, keep) ==
    IF remove_photo_raises(list, keep) THEN evs
    ELSE LET keep_name == IF Truthy(keep)
                          THEN ListIndex(list, KeepIntValue(keep) - 1).event
                          ELSE None
         IN RemoveFromOthers(evs, list, photo_path, keep_name)

\* the guard of handle_duplicate_events (utilities/project.py 160-167) on the
\* selection, a string or None
InvalidSelection(keep, n) ==
    \/ keep.kind = "none"
    \/ ~ isdigit(keep.s)
    \/ DigitsValue(keep.s, 0) < 1
    \/ DigitsValue(keep.s, 0) > n

\* handle_duplicate_events (utilities/project.py): no change on an invalid
\* selection, else remove_photo_from_event with int(keep_idx)
handle_duplicate_events(evs, list, photo_path, keep) ==
    IF InvalidSelection(keep, Len(list)) THEN evs
    ELSE remove_photo_from_event(evs, list, photo_path,
                                 KeepInt(DigitsValue(keep.s, 0)))

-----------------------------------------------------------------------------
(* Event names *)

RECURSIVE StripLeft(_)
StripLeft(s) == IF s # <<>> /\ Head(s) = " " THEN StripLeft(Tail(s)) ELSE s

RECURSIVE StripRight(_)
StripRight(s) ==
    IF s # <<>> /\ s[Len(s)] = " " THEN StripRight(SubSeq(s, 1, Len(s) - 1)) ELSE s

\* the characters urllib.parse.quote leaves alone, among those of the model
QuoteSafe == {"P", "k", "O", "T", "m", "e", "p", "o", "t", "_", "-", ".", "~", "/"}

RECURSIVE quote(_)
\* urllib.parse.quote: a character that is not safe becomes an escape
quote(s) ==
    IF s = <<>> THEN <<>>
    ELSE (IF Head(s) \in QuoteSafe THEN <<Head(s)>> ELSE <<"%", Head(s)>>)
         \o quote(Tail(s))

\* text.strip().replace(" ", "_"), then quote
sanitize_text(text) ==
    LET stripped == StripRight(StripLeft(text))
    IN quote([i \in 1..Len(stripped) |->
                 IF stripped[i] = " " THEN "_" ELSE stripped[i]])

DayNames == <<"20240101", "20240102", "20240103">>

\* date.format("YYYYMMDD"), in UTC
YYYYMMDD(date) == DayNames[(date \div TicksPerDay) + 1]

\* process.py 349-350
AutoEventName(event_date, location_name) ==
    <<YYYYMMDD(event_date), "-">> \o sanitize_text(location_name)

-----------------------------------------------------------------------------
(* The photos of the assets directory and what their EXIF holds *)

NoDate == -1

ExifOf(kind, date, lat, lon) == [kind |-> kind, date |-> date, lat |-> lat, lon |-> lon]

\* extract_exif_info, extract_gps, extract_datetime on the file
Exif(f) ==
    CASE f = "a.jpg" -> ExifOf("ok", 4, 1, 1)         \* day 1, 02:00
      [] f = "b.jpg" -> ExifOf("ok", 19, 4, 1)        \* day 1, 09:30, 300 m from a
      [] f = "c.jpg" -> ExifOf("ok", 34, 1, 1)        \* day 1, 17:00
      [] f = "d.jpg" -> ExifOf("ok", 4, 7, 5)         \* day 1, 02:00, elsewhere
      [] f = "g.jpg" -> ExifOf("ok", 4, 0, 0)         \* no GPS tags
      [] f = "x.jpg" -> ExifOf("invalid", NoDate, 0, 0)
      [] f = "n.jpg" -> ExifOf("ok", NoDate, 1, 1)    \* no DateTimeOriginal
      [] f = "p1.jpg" -> ExifOf("ok", 5, 1, 1)        \* day 1, 02:30 to 04:30,
      [] f = "p2.jpg" -> ExifOf("ok", 6, 1, 1)        \* all at one place
      [] f = "p3.jpg" -> ExifOf("ok", 7, 1, 1)
      [] f = "p4.jpg" -> ExifOf("ok", 8, 1, 1)
      [] f = "p5.jpg" -> ExifOf("ok", 9, 1, 1)

AssetFiles == {"a.jpg", "b.jpg", "c.jpg", "d.jpg"}

RelativePath(f) == convert_to_relative_path(FilePath(f), main_path)

-----------------------------------------------------------------------------
(* The location command: the body of its loop for one file (process.py     *)
(* 228-375).  `ans` holds what the operator enters when asked: selection,  *)
(* add_gps, date, location_name, event_name.  The result names the tables  *)
(* as the step leaves them, also when it ends in an exception.             *)

StepResult(evs, locs, outcome, location, same, dup, name) ==
    [events |-> evs, locations |-> locs, outcome |-> outcome,
     location |-> location, same |-> same, dup |-> dup, name |-> name]

NoMatch == [date |-> NoDate, event |-> None, same |-> FALSE]

\* process.py 334-375, once the date and the location name are known
ResolveEvent(evs, locs, relative_path, date_object, lat, lon, location_name, ans) ==
    LET same == same_event(evs, date_object, location_name)
        dup == item_duplicate(evs, locs, date_object, lat, lon)
        event_name == IF SettingOn(settings, "auto_event")
                      THEN AutoEventName(same.date, location_name)
                      ELSE ans.event_name
        event == get_event(evs, event_name)
    IN IF dup
       THEN StepResult(evs, locs, "skipped_duplicate", location_name, same, TRUE, None)
       ELSE IF same.same
       THEN IF event = None
            THEN StepResult(evs, locs, "AttributeError", location_name, same, FALSE,
                            event_name)
            ELSE IF relative_path \notin Range(event[1].photos)
            THEN StepResult(upsert_event(evs, event[1], relative_path), locs,
                            "appended", location_name, same, FALSE, event_name)
            ELSE StepResult(evs, locs, "already", location_name, same, FALSE,
                            event_name)
       ELSE StepResult(upsert_event(evs,
                           [event |-> event_name, latitude |-> lat, longitude |-> lon,
                            location |-> location_name, date |-> date_object,
                            photos |-> <<relative_path>>],
                           None),
                       locs, "created", location_name, same, FALSE, event_name)

LocationPhoto(f, ans) ==
    LET relative_path == RelativePath(f)
        duplicate_events == find_events_with_photo(events, relative_path)
        evs == IF Len(duplicate_events) > 1
               THEN handle_duplicate_events(events, duplicate_events, relative_path,
                                            ans.selection)
               ELSE events
        exif == Exif(f)
        date_object == IF exif.date = NoDate THEN ans.date ELSE exif.date
        lat == exif.lat
        lon == exif.lon
        found == find_location(locations, lat, lon, DefaultMaxDistance)
        params == [name |-> ans.location_name, latitude |-> lat, longitude |-> lon]
    IN IF exif.kind = "invalid"
       THEN StepResult(evs, locations, "invalid_image", None, NoMatch, FALSE, None)
       ELSE IF lat # 0 /\ lon # 0
       THEN IF found # None
            THEN ResolveEvent(evs, locations, relative_path, date_object, lat, lon,
                              found, ans)
            ELSE IF upsert_location_raises(params)
            THEN StepResult(evs, locations, "KeyError", None, NoMatch, FALSE, None)
            ELSE ResolveEvent(evs, upsert_location(locations, params), relative_path,
                              date_object, lat, lon, ans.location_name, ans)
       ELSE IF ans.add_gps
            \* `"°" in lat` with lat not a string
            THEN StepResult(evs, locations, "TypeError", None, NoMatch, FALSE, None)
            ELSE StepResult(evs, locations, "skipped_no_gps", None, NoMatch, FALSE, None)

Completed == {"appended", "already", "created"}

-----------------------------------------------------------------------------
(* Initial state: the stores as the first command finds them, all empty    *)

Init ==
    /\ locations = <<>>
    /\ events = <<>>
    /\ photos = <<>>
    /\ settings = <<>>
    /\ rankings = <<>>
    /\ posts = <<>>
    /\ last = [op |-> "init"]

-----------------------------------------------------------------------------
(* Bounds and input sets *)

MaxSettings == 1

GridPoints == {<<lat, lon>> : lat \in Lats, lon \in Lons}

\* the locations entered while events are ingested: name, latitude, longitude
IngestLocations == {<<Pk, 1, 1>>, <<OT, 7, 5>>}

SettingsDocs ==
    {[description |-> FALSE, flavor |-> FALSE],
     [description |-> TRUE, flavor |-> FALSE, quality |-> 80, auto_event |-> TRUE]}

Selections ==
    {KeepNone} \cup {KeepStr(s) : s \in {<<"0">>, <<"1">>, <<"2">>, <<"3">>, <<"x">>}}

KeepArguments ==
    Selections \cup {KeepInt(n) : n \in {0, 1}}

TypedEventNames == {<<"T">>, AutoEventName(4, Pk)}

\* the answers the operator can give for file f; a question that is not
\* asked has one answer
LocationAnswers(f) ==
    [selection : IF Len(find_events_with_photo(events, RelativePath(f))) > 1
                 THEN Selections ELSE {KeepNone},
     add_gps : IF Exif(f).kind = "ok" /\ Exif(f).lat = 0 THEN BOOLEAN ELSE {FALSE},
     date : {4},
     location_name : {Pk},
     event_name : IF SettingOn(settings, "auto_event")
                  THEN {None} ELSE TypedEventNames]

-----------------------------------------------------------------------------
(* Actions *)

\* SharedDB.upsert_location called with the keys it reads
UpsertLocation(name, lat, lon) ==
    /\ locations' = upsert_location(locations,
                        [location_name |-> name, latitude |-> lat, longitude |-> lon])
    /\ last' = [op |-> "upsert_location", name |-> name, lat |-> lat, lon |-> lon]
    /\ UNCHANGED <<events, photos, settings, rankings, posts>>

\* SharedDB.find_location
FindLocation(lat, lon, max_distance) ==
    /\ last' = [op |-> "find_location", lat |-> lat, lon |-> lon,
                max_distance |-> max_distance,
                ret |-> find_location(locations, lat, lon, max_distance)]
    /\ UNCHANGED <<locations, events, photos, settings, rankings, posts>>

\* ProjectDB.upsert_settings
UpsertSettings(doc) ==
    /\ Len(settings) < MaxSettings
    /\ settings' = upsert_settings(settings, doc)
    /\ last' = [op |-> "upsert_settings", doc |-> doc]
    /\ UNCHANGED <<locations, events, photos, rankings, posts>>

\* one file of the loop of the location command
Location(f, ans) ==
    \E r \in {LocationPhoto(f, ans)} :
       /\ events' = r.events
       /\ locations' = r.locations
       /\ last' = [op |-> "location", file |-> f, outcome |-> r.outcome,
                   location |-> r.location, same |-> r.same, dup |-> r.dup,
                   name |-> r.name]
       /\ UNCHANGED <<photos, settings, rankings, posts>>

\* handle_duplicate_events (utilities/project.py) for a path that its caller
\* found in more than one event
HandleDuplicateEvents(f, keep) ==
    \E list \in {find_events_with_photo(events, RelativePath(f))} :
       /\ Len(list) > 1
       /\ events' = handle_duplicate_events(events, list, RelativePath(f), keep)
       /\ last' = [op |-> "handle_duplicate_events", file |-> f, keep |-> keep,
                   n |-> Len(list)]
       /\ UNCHANGED <<locations, photos, settings, rankings, posts>>

\* remove_photo_from_event as cli/main.py 153-169 calls it: the events that
\* hold the path, and the selection passed on as it is
RemovePhotoFromEvent(f, keep) ==
    \E list \in {find_events_with_photo(events, RelativePath(f))} :
       /\ Len(list) > 1
       /\ events' = remove_photo_from_event(events, list, RelativePath(f), keep)
       /\ last' = [op |-> "remove_photo_from_event", file |-> f, keep |-> keep,
                   n |-> Len(list)]
       /\ UNCHANGED <<locations, photos, settings, rankings, posts>>

Next ==
    \/ \E l \in IngestLocations : UpsertLocation(l[1], l[2], l[3])
    \/ \E doc \in SettingsDocs : UpsertSettings(doc)
    \/ \E f \in AssetFiles : \E ans \in LocationAnswers(f) : Location(f, ans)
    \/ \E f \in AssetFiles, keep \in Selections : HandleDuplicateEvents(f, keep)
    \/ \E f \in AssetFiles, keep \in KeepArguments : RemovePhotoFromEvent(f, keep)

Spec == Init /\ [][Next]_vars

-----------------------------------------------------------------------------
(* The photo records on their own: the images command and upsert_photo     *)

PhotoFiles == {"a.jpg"}

ImagesAnswers ==
    [okay : BOOLEAN, quality : {80}, rotation : {90}, brightness : {0, 12},
     description : {"sea"}, flavor : {""}]

\* records given to upsert_photo: all the fields images writes, or some
PhotoDocs ==
    {[path |-> path, rotation |-> rotation] :
        path \in {RelativePath("a.jpg"), FilePath("a.jpg")}, rotation \in {0, 90}}
    \cup {[path |-> RelativePath("a.jpg"), rotation |-> 0, description |-> "sea"]}

\* one file of the loop of the images command
Images(f, view, all, answers) ==
    /\ photos' = upsert_photo(photos, ImagesPhoto(f, view, all, answers))
    /\ last' = [op |-> "images", file |-> f, found |-> FoundUnder(f)]
    /\ UNCHANGED <<locations, events, settings, rankings, posts>>

\* ProjectDB.upsert_photo
UpsertPhoto(photo) ==
    /\ photos' = upsert_photo(photos, photo)
    /\ last' = [op |-> "upsert_photo", photo |-> photo,
                existed |-> get_photo(photos, photo.path) # None,
                repeat |-> last.op = "upsert_photo" /\ last.photo = photo,
                changed |-> upsert_photo(photos, photo) # photos]
    /\ UNCHANGED <<locations, events, settings, rankings, posts>>

NextPhotos ==
    \/ \E doc \in SettingsDocs : UpsertSettings(doc)
    \/ \E f \in PhotoFiles, view \in BOOLEAN, all \in BOOLEAN :
          \E answers \in ImagesAnswers : Images(f, view, all, answers)
    \/ \E photo \in PhotoDocs : UpsertPhoto(photo)

SpecPhotos == Init /\ [][NextPhotos]_vars

-----------------------------------------------------------------------------
(* Sequences of upsert_settings calls on one project store *)

MaxSettingsCalls == 2

\* ProjectDB.upsert_settings, called again on a store that has settings
UpsertSettingsAgain(doc) ==
    /\ Len(settings) < MaxSettingsCalls
    /\ settings' = upsert_settings(settings, doc)
    /\ last' = [op |-> "upsert_settings", doc |-> doc]
    /\ UNCHANGED <<locations, events, photos, rankings, posts>>

NextSettings ==
    \/ \E doc \in SettingsDocs : UpsertSettingsAgain(doc)
    \/ \E f \in PhotoFiles, view \in BOOLEAN, all \in BOOLEAN :
          \E answers \in ImagesAnswers : Images(f, view, all, answers)

SpecSettings == Init /\ [][NextSettings]_vars

-----------------------------------------------------------------------------
(* The Geo Index on its own: locations stored through upsert_location and  *)
(* looked up with find_location                                            *)

GeoNames == {Pk, OT}

MaxDistances == {4, DefaultMaxDistance}

NextGeo ==
    \/ \E name \in GeoNames, p \in GridPoints : UpsertLocation(name, p[1], p[2])
    \/ \E p \in GridPoints, max_distance \in MaxDistances :
          FindLocation(p[1], p[2], max_distance)

SpecGeo == Init /\ [][NextGeo]_vars

-----------------------------------------------------------------------------
(* The location command run over the whole assets directory, twice: the    *)
(* files come in the order of the directory walk, the same in both runs,   *)
(* and the operator gives the same answer for a file in both runs.  `last` *)
(* holds the progress of the runs; an exception ends the process.          *)

RunFiles == {"a.jpg", "c.jpg", "d.jpg"}

\* the orders in which the directory walk can yield the files
RunOrders ==
    {order \in [1..Cardinality(RunFiles) -> RunFiles] :
        \A i, j \in 1..Cardinality(RunFiles) : order[i] = order[j] => i = j}

\* the locations stored before the runs: name, latitude, longitude
RunLocations == {<<Pk, 1, 1>>, <<OT, 4, 5>>}

\* the outcomes of a location step that are an exception nothing handles
Raised == {"KeyError", "AttributeError", "TypeError"}

RunAnswers(names, f) ==
    [selection |-> KeepNone, add_gps |-> FALSE, date |-> 4,
     location_name |-> Pk, event_name |-> names[f]]

\* the first run starts on a project without events
StartRun(order, names) ==
    /\ last.op # "run"
    /\ events = <<>>
    /\ last' = [op |-> "run", order |-> order, names |-> names, pass |-> 1,
                done |-> 0, raised |-> FALSE, first |-> <<>>]
    /\ UNCHANGED <<locations, events, photos, settings, rankings, posts>>

\* the next file of the run; after the last file of the first run the second
\* run starts, and `first` keeps the tables as the first run left them
RunLocation ==
    /\ last.op = "run"
    /\ ~ last.raised
    /\ last.done < Len(last.order)
    /\ \E r \in {LocationPhoto(last.order[last.done + 1],
                               RunAnswers(last.names, last.order[last.done + 1]))} :
          /\ events' = r.events
          /\ locations' = r.locations
          /\ last' = IF r.outcome \in Raised
                     THEN [last EXCEPT !.raised = TRUE]
                     ELSE IF last.pass = 1 /\ last.done + 1 = Len(last.order)
                     THEN [last EXCEPT !.pass = 2, !.done = 0,
                                       !.first = <<r.events, r.locations>>]
                     ELSE [last EXCEPT !.done = last.done + 1]
    /\ UNCHANGED <<photos, settings, rankings, posts>>

NextRerun ==
    \/ \E l \in RunLocations : last.op # "run" /\ UpsertLocation(l[1], l[2], l[3])
    \/ \E doc \in SettingsDocs : last.op # "run" /\ UpsertSettings(doc)
    \/ \E order \in RunOrders, names \in [RunFiles -> TypedEventNames] :
          StartRun(order, IF SettingOn(settings, "auto_event")
                          THEN [f \in RunFiles |-> None] ELSE names)
    \/ RunLocation

SpecRerun == Init /\ [][NextRerun]_vars

\* C11: when the second run of the location command over the same files,
\* with the same answers and settings, has ended, the events and the
\* locations are as the first run left them
C11_RerunIdempotent ==
    (/\ last.op = "run"
     /\ last.pass = 2
     /\ ~ last.raised
     /\ last.done = Len(last.order))
    => <<events, locations>> = last.first

-----------------------------------------------------------------------------
(* The location command over files whose metadata is missing or invalid *)

MetadataFiles == {"a.jpg", "g.jpg", "x.jpg", "n.jpg"}

NextMetadata ==
    \/ \E l \in IngestLocations : UpsertLocation(l[1], l[2], l[3])
    \/ \E doc \in SettingsDocs : UpsertSettings(doc)
    \/ \E f \in MetadataFiles : \E ans \in LocationAnswers(f) : Location(f, ans)

SpecMetadata == Init /\ [][NextMetadata]_vars

\* the files without GPS tags, without a timestamp, or with malformed EXIF
Deficient ==
    {f \in MetadataFiles :
        Exif(f).kind = "invalid" \/ Exif(f).date = NoDate \/ Exif(f).lat = 0}

\* C18: the location step for a photo without GPS, without timestamp or with
\* malformed EXIF never ends in an exception nothing handles
C18_NeverFatal ==
    (last.op = "location" /\ last.file \in Deficient) => last.outcome \notin Raised

-----------------------------------------------------------------------------
(* Rankings (database/project.py 292-332) and the rank command            *)
(* (process.py 380-483).  A rank is the text the operator entered.         *)

\* ord(c) of a digit
Ord(c) == 48 + DigitVal(c)

\* a < b for Python strings of digits: by code point, a prefix first
RECURSIVE StrLess(_, _)
StrLess(a, b) ==
    IF b = <<>> THEN FALSE
    ELSE IF a = <<>> THEN TRUE
    ELSE IF Head(a) = Head(b) THEN StrLess(Tail(a), Tail(b))
    ELSE Ord(Head(a)) < Ord(Head(b))

\* the place of x in a list sorted by rank: behind every entry not above it
RECURSIVE InsertByRank(_, _)
InsertByRank(sorted, x) ==
    IF sorted = <<>> THEN <<x>>
    ELSE IF StrLess(x.rank, Head(sorted).rank) THEN <<x>> \o sorted
    ELSE <<Head(sorted)>> \o InsertByRank(Tail(sorted), x)

\* sorted(rankings, key=lambda x: x["rank"]): stable, the keys are strings
RECURSIVE SortedByRank(_)
SortedByRank(list) ==
    IF list = <<>> THEN <<>>
    ELSE InsertByRank(SortedByRank(SubSeq(list, 1, Len(list) - 1)), list[Len(list)])

get_rankings_by_event(rks, event) == SortedByRank(TableSearch(rks, "event", event))

\* the rank of the photo; None stands for the 0 of a photo without ranking
get_rank_by_photo(rks, path) ==
    IF TableGet(rks, "path", path) = None THEN None
    ELSE TableGet(rks, "path", path)[1].rank

upsert_rankings(rks, ranking) == TableUpsert(rks, ranking, "path", ranking.path)

\* process.py 441-460 over the photos of the event; `ans` holds the rank the
\* operator enters for each photo and the selection for the resolver
RECURSIVE RankPhotos(_, _, _, _)
RankPhotos(st, photo_list, ans, unranked) ==
    IF photo_list = <<>> \/ st.raised THEN st
    ELSE LET photo == Head(photo_list)
             previous_rank == get_rank_by_photo(st.rankings, photo)
             found == find_events_with_photo(st.events, photo)
             evs == IF Len(found) > 1
                    THEN handle_duplicate_events(st.events, found, photo, ans.selection)
                    ELSE st.events
             events_with_photo == find_events_with_photo(evs, photo)
         IN IF unranked /\ previous_rank # None
            THEN RankPhotos(st, Tail(photo_list), ans, unranked)
            ELSE IF events_with_photo = <<>>
            THEN [events |-> evs, rankings |-> st.rankings, raised |-> TRUE]
            ELSE RankPhotos(
                     [events |-> evs,
                      rankings |-> upsert_rankings(st.rankings,
                                       [rank |-> ans.rank[photo],
                                        event |-> events_with_photo[1].event,
                                        path |-> photo]),
                      raised |-> FALSE],
                     Tail(photo_list), ans, unranked)

-----------------------------------------------------------------------------
(* Posts (database/project.py 106-121, 264-289) and the Bluesky posting    *)
(* command (cli/post.py 27-177)                                            *)

\* the number of images a post can carry
AttachmentLimit == 4

EventNamesOf(evs) == {evs[i].event : i \in 1..Len(evs)}

\* the names get_events_without_bluesky_posted returns
get_events_without_bluesky_posted(evs, psts) ==
    {evs[i].event : i \in {j \in 1..Len(evs) :
        ~ \E k \in 1..Len(psts) :
              psts[k].where = "Bluesky" /\ psts[k].event = evs[j].event}}

\* every event offered, posted or not
EventsOfferedAll(evs, psts, allow) == EventNamesOf(evs)

\* post.py 52-55: the events offered for posting
EventsOffered(evs, psts, allow) ==
    IF allow \/ get_events_without_bluesky_posted(evs, psts) = {}
    THEN EventNamesOf(evs)
    ELSE get_events_without_bluesky_posted(evs, psts)

\* the first photos of the event, whatever the ranking
PhotoListUnranked(evs, rks, event_name) ==
    SubSeq(get_event(evs, event_name)[1].photos, 1,
           Min({AttachmentLimit, Len(get_event(evs, event_name)[1].photos)}))

\* post.py 85-97: the paths to upload
PhotoList(evs, rks, event_name) ==
    LET event_photos == get_event(evs, event_name)[1].photos
        ranking == get_rankings_by_event(rks, event_name)
    IN IF Len(event_photos) > AttachmentLimit
       THEN [i \in 1..Min({AttachmentLimit, Len(ranking)}) |-> ranking[i].path]
       ELSE event_photos

\* ProjectDB.set_post: the uri is a sequence of its parts between slashes
set_post(psts, event_name, user, platform, uri, now) ==
    Append(psts,
           [event |-> event_name, where |-> platform, account |-> user,
            date |-> now,
            link |-> IF uri # None
                     THEN <<"https://bsky.app/profile">> \o user
                          \o <<"post", uri[Len(uri)]>>
                     ELSE None,
            uri |-> uri])

\* client.login returned a session (post.py 70-77)
LoggedInUnlessRaised(login) == login # "raises"

LoggedIn(login) == login = "ok"

\* post.py 44-177.  `in` holds the options and what the collaborators do:
\* allow, dryrun, login ("ok", "no_session", "raises"), present (the paths
\* whose file exists), compress (FALSE: compress_image raises), response of
\* send_images ("uri", "no_uri", "none", "raises"), user, now
PostResult(psts, outcome, photo_list, sent) ==
    [posts |-> psts, outcome |-> outcome, photo_list |-> photo_list, sent |-> sent]

Atprotocol(evs, rks, psts, event_name, in) ==
    LET photo_list == PhotoList(evs, rks, event_name)
        images == SelectSeq(photo_list, LAMBDA path : path \in in.present)
    IN IF evs = <<>> THEN PostResult(psts, "no_events", <<>>, FALSE)
       ELSE IF ~ LoggedIn(in.login) THEN PostResult(psts, "login_failed", <<>>, FALSE)
       ELSE IF images # <<>> /\ ~ in.compress
       THEN PostResult(psts, "compress_failed", photo_list, FALSE)
       ELSE IF images = <<>> THEN PostResult(psts, "no_images", photo_list, FALSE)
       \* `response` is read without having been assigned
       ELSE IF in.dryrun THEN PostResult(psts, "UnboundLocalError", photo_list, FALSE)
       ELSE IF in.response = "raises"
       THEN PostResult(psts, "upload_failed", photo_list, TRUE)
       ELSE IF in.response = "none"
       THEN PostResult(psts, "no_response", photo_list, TRUE)
       ELSE PostResult(set_post(psts, event_name, sanitize_text(in.user), "Bluesky",
                                IF in.response = "uri" THEN in.uri ELSE None, in.now),
                       "posted", photo_list, TRUE)

-----------------------------------------------------------------------------
(* Ranking and posting the events of one place: the location command       *)
(* takes the files in the order of the directory walk                      *)

MaxPosts == 1

PostWalk == <<"d.jpg", "p1.jpg", "p2.jpg", "p3.jpg", "p4.jpg", "p5.jpg">>

PostFiles == Range(PostWalk)

\* the operator names the events by their place
PostAnswers(f) ==
    [selection |-> KeepNone, add_gps |-> FALSE, date |-> 4, location_name |-> Pk,
     event_name |-> IF f = "d.jpg" THEN <<"U">> ELSE <<"T">>]

\* f is the next file of the walk that no event holds
NextOfWalk(f) ==
    /\ ~ (find_events_with_photo(events, RelativePath(f)) # <<>>)
    /\ \A i \in 1..Len(PostWalk) :
          PostWalk[i] = f =>
             \A j \in 1..(i - 1) :
                find_events_with_photo(events, RelativePath(PostWalk[j])) # <<>>

Ranks == {<<"2">>, <<"1", "0">>}

\* one run of the rank command with --event and --greater: an event with no
\* more photos than greater_than is passed over
Rank(event_name, greater_than, ans, unranked, review) ==
    /\ event_name \in EventNamesOf(events)
    /\ \E st \in {IF Len(get_event(events, event_name)[1].photos) <= greater_than
                  THEN [events |-> events, rankings |-> rankings, raised |-> FALSE]
                  ELSE RankPhotos([events |-> events, rankings |-> rankings,
                                   raised |-> FALSE],
                                  get_event(events, event_name)[1].photos,
                                  ans, unranked)} :
          /\ events' = st.events
          /\ rankings' = st.rankings
          /\ last' = [op |-> "rank", event |-> event_name, raised |-> st.raised,
                      review |-> review,
                      reviewed |-> IF /\ review
                                      /\ ~ st.raised
                                      /\ Len(get_event(events, event_name)[1].photos)
                                            > greater_than
                                   THEN get_rankings_by_event(st.rankings, event_name)
                                   ELSE <<>>]
    /\ UNCHANGED <<locations, photos, settings, posts>>

\* the ranks the operator enters for the photos: one photo at most is set
\* back to rank 10, the others get rank 2
RankAnswers(photo_list) ==
    {[selection |-> KeepNone,
      rank |-> [path \in Range(photo_list) |->
                   IF path \in back THEN <<"1", "0">> ELSE <<"2">>]] :
        back \in {b \in SUBSET Range(photo_list) : Cardinality(b) <= 1}}

\* the rank command is run on the event of one photo, and with
\* --greater 4 on the other
RankRuns == {<<<<"U">>, 0>>, <<<<"T">>, AttachmentLimit>>}

\* the inputs of a run; an input the run never comes to read has one value
PostInputs ==
    {in \in [allow : BOOLEAN, dryrun : BOOLEAN,
             login : {"ok", "no_session", "raises"},
             present : {{RelativePath(f) : f \in PostFiles}, {}},
             compress : BOOLEAN,
             response : {"uri", "no_uri", "none", "raises"},
             user : {<<"m", "e">>},
             uri : {<<"at:", "did", "app.bsky.feed.post", "3k">>},
             now : {40}] :
        /\ in.present = {} => in.compress
        /\ ~ in.compress => in.dryrun
        /\ in.dryrun => in.response = "none"}

\* one run of the posting command: the operator chooses among the events
\* offered
PostRun(event_name, in) ==
    /\ event_name \in (IF events = <<>> THEN {None}
                       ELSE EventsOffered(events, posts, in.allow))
    /\ \E r \in {Atprotocol(events, rankings, posts, event_name, in)} :
          /\ posts' = r.posts
          /\ last' = [op |-> "atprotocol", event |-> event_name, login |-> in.login,
                      outcome |-> r.outcome, photo_list |-> r.photo_list,
                      sent |-> r.sent,
                      response |-> IF r.sent THEN in.response ELSE "-",
                      allow |-> in.allow,
                      offered |-> EventsOffered(events, posts, in.allow)]
    /\ UNCHANGED <<locations, events, photos, settings, rankings>>

\* a posting run on a store that holds fewer than MaxPosts posts
Post(event_name, in) ==
    /\ Len(posts) < MaxPosts
    /\ PostRun(event_name, in)

NextPost ==
    \/ \E l \in IngestLocations : UpsertLocation(l[1], l[2], l[3])
    \/ \E f \in PostFiles : NextOfWalk(f) /\ Location(f, PostAnswers(f))
    \/ \E run \in RankRuns, unranked \in BOOLEAN, review \in {TRUE} :
          \E ans \in RankAnswers(IF get_event(events, run[1]) = None THEN <<>>
                                 ELSE get_event(events, run[1])[1].photos) :
             Rank(run[1], run[2], ans, unranked, review)
    \/ \E event_name \in {None, <<"T">>, <<"U">>}, in \in PostInputs :
          Post(event_name, in)

SpecPost == Init /\ [][NextPost]_vars

-----------------------------------------------------------------------------
(* Posting after photos were moved between events: the rank command is run
   with --greater 5, on the event once it holds six photos *)

MoveWalk == <<"d.jpg", "p1.jpg", "p2.jpg", "p3.jpg", "p4.jpg", "p5.jpg", "b.jpg">>

\* f is the next file of the walk that no event holds
NextOfMoveWalk(f) ==
    /\ ~ (find_events_with_photo(events, RelativePath(f)) # <<>>)
    /\ \A i \in 1..Len(MoveWalk) :
          MoveWalk[i] = f =>
             \A j \in 1..(i - 1) :
                find_events_with_photo(events, RelativePath(MoveWalk[j])) # <<>>

\* the files a later run of the location command comes to again
MovedFiles == {"p2.jpg"}

MoveSelections == {KeepStr(<<"1">>), KeepStr(<<"2">>)}

\* the answers of the later run: the operator names either event, and picks
\* an event when the resolver asks
MoveAnswers(f) ==
    [selection : IF Len(find_events_with_photo(events, RelativePath(f))) > 1
                 THEN MoveSelections ELSE {KeepNone},
     add_gps : {FALSE}, date : {4}, location_name : {Pk},
     event_name : {<<"T">>, <<"U">>}]

NextMove ==
    \/ \E l \in IngestLocations : UpsertLocation(l[1], l[2], l[3])
    \/ \E f \in Range(MoveWalk) : NextOfMoveWalk(f) /\ Location(f, PostAnswers(f))
    \/ \E f \in MovedFiles :
          /\ find_events_with_photo(events, RelativePath(f)) # <<>>
          /\ \E ans \in MoveAnswers(f) : Location(f, ans)
    \/ \E ans \in RankAnswers(IF get_event(events, <<"T">>) = None THEN <<>>
                              ELSE get_event(events, <<"T">>)[1].photos) :
          Rank(<<"T">>, AttachmentLimit + 1, ans, FALSE, TRUE)
    \/ \E event_name \in {None, <<"T">>, <<"U">>} :
          \E in \in {i \in PostInputs : ~ i.allow} : Post(event_name, in)

SpecMove == Init /\ [][NextMove]_vars

-----------------------------------------------------------------------------
(* Rounds of posting runs over two events *)

MaxRounds == 3

RoundFiles == {"d.jpg", "p1.jpg"}

NextRounds ==
    \/ \E l \in IngestLocations : UpsertLocation(l[1], l[2], l[3])
    \/ \E f \in RoundFiles : NextOfWalk(f) /\ Location(f, PostAnswers(f))
    \/ \E event_name \in {None, <<"T">>, <<"U">>}, in \in PostInputs :
          Len(posts) < MaxRounds /\ PostRun(event_name, in)

SpecRounds == Init /\ [][NextRounds]_vars

-----------------------------------------------------------------------------
(* The location command with manual event names, the operator free to type *)
(* the name of any of three events                                         *)

ResolveNames == {<<"T">>, <<"U">>, AutoEventName(4, Pk)}

ResolveSelections == {KeepNone, KeepStr(<<"1">>), KeepStr(<<"x">>)}

ResolveAnswers(f) ==
    [selection : IF Len(find_events_with_photo(events, RelativePath(f))) > 1
                 THEN ResolveSelections ELSE {KeepNone},
     add_gps : {FALSE},
     date : {4},
     location_name : {Pk},
     event_name : ResolveNames]

NextResolve ==
    \/ \E l \in RunLocations : UpsertLocation(l[1], l[2], l[3])
    \/ \E f \in RunFiles : \E ans \in ResolveAnswers(f) : Location(f, ans)

SpecResolve == Init /\ [][NextResolve]_vars

\* C26: a location step for a path that several events hold, in which the
\* resolver gets no valid selection, creates or updates no event
C26_UnresolvedBlocks ==
    [][(/\ last'.op = "location"
        /\ Len(find_events_with_photo(events, RelativePath(last'.file))) > 1
        /\ \E ans \in ResolveAnswers(last'.file) :
              /\ InvalidSelection(ans.selection,
                    Len(find_events_with_photo(events, RelativePath(last'.file))))
              /\ Location(last'.file, ans))
       => events' = events]_vars

-----------------------------------------------------------------------------
(* Start of a command that names a project: set_project                    *)
(* (utilities/project.py 43-72) and the stores the command opens.  The     *)
(* registry is the Projects section of config.ini, its keys in lower case. *)

\* str.lower() on the letters in use
lower(text) ==
    [i \in 1..Len(text) |->
        CASE text[i] = "P" -> "p" [] text[i] = "O" -> "o" [] text[i] = "T" -> "t"
          [] OTHER -> text[i]]

\* set_project ends the process: no project registered, or not this one
SetProjectExits(project, registry) ==
    registry = {} \/ sanitize_text(lower(project)) \notin registry

\* the stores a command opens, in order, up to the exit of set_project;
\* prettify takes the project as an option, None when it is left out
StoresOpened(cmd, project, registry) ==
    CASE cmd \in {"images", "location"} ->
            IF SetProjectExits(project, registry) THEN <<>>
            ELSE <<"project", "shared">>
      [] cmd \in {"rank", "prune", "atprotocol"} ->
            IF SetProjectExits(project, registry) THEN <<>> ELSE <<"project">>
      [] cmd = "prettify" ->
            IF project = None THEN <<"shared">>
            ELSE IF SetProjectExits(project, registry) THEN <<"shared">>
            ELSE <<"shared", "project">>

Commands == {"images", "location", "rank", "prune", "atprotocol", "prettify"}

ProjectNames == {Pk, <<"m", "e">>}

Registries == {{}, {<<"p", "k">>}}

\* the start of a command, up to the point where its stores are open
Command(cmd, project, registry) ==
    /\ project = None => cmd = "prettify"
    /\ last' = [op |-> "command", cmd |-> cmd, project |-> project,
                registry |-> registry,
                exited |-> project # None /\ SetProjectExits(project, registry),
                opened |-> StoresOpened(cmd, project, registry)]
    /\ UNCHANGED <<locations, events, photos, settings, rankings, posts>>

NextProject ==
    \/ \E name \in GeoNames, p \in GridPoints : UpsertLocation(name, p[1], p[2])
    \/ \E cmd \in Commands, project \in ProjectNames \cup {None},
          registry \in Registries : Command(cmd, project, registry)

SpecProject == Init /\ [][NextProject]_vars

\* C17: a command whose project is not in the registry exits before it has
\* opened any store
C17_NoStoreTouched ==
    (last.op = "command" /\ last.exited) => last.opened = <<>>

-----------------------------------------------------------------------------
(* Properties of the rankings and of posting *)

\* the place of x in a list in ascending order of the number its rank reads
RECURSIVE InsertByValue(_, _)
InsertByValue(sorted, x) ==
    IF sorted = <<>> THEN <<x>>
    ELSE IF DigitsValue(x.rank, 0) < DigitsValue(Head(sorted).rank, 0)
    THEN <<x>> \o sorted
    ELSE <<Head(sorted)>> \o InsertByValue(Tail(sorted), x)

\* the list in ascending integer order of rank, equal ranks in the order of
\* the list
RECURSIVE SortedByValue(_)
SortedByValue(list) ==
    IF list = <<>> THEN <<>>
    ELSE InsertByValue(SortedByValue(SubSeq(list, 1, Len(list) - 1)), list[Len(list)])

\* the ranking entries of the event, in storage order
EntriesOf(event) == TableSearch(rankings, "event", event)

\* C12: the rankings the rank command shows for review are the ranking
\* entries of the event in ascending integer order of rank, entries of equal
\* rank in insertion order
C12_RankedOrder ==
    (last.op = "rank" /\ last.review /\ ~ last.raised /\ last.reviewed # <<>>)
    => last.reviewed = SortedByValue(EntriesOf(last.event))

\* the event chosen for posting has more photos than a post carries
OverCapacity ==
    /\ last.op = "atprotocol"
    /\ last.event # None
    /\ Len(get_event(events, last.event)[1].photos) > AttachmentLimit

\* C13: when the event chosen for posting has more than 4 photos and every
\* photo of it is ranked, the photos selected for upload are the 4 entries
\* of lowest rank, in rank order
C13_TopFour ==
    (/\ OverCapacity
     /\ LoggedIn(last.login)
     /\ {EntriesOf(last.event)[i].path : i \in 1..Len(EntriesOf(last.event))}
           = Range(get_event(events, last.event)[1].photos))
    => last.photo_list
          = [i \in 1..AttachmentLimit |-> SortedByValue(EntriesOf(last.event))[i].path]

\* C28: the photos a posting run selects for upload are at most 4 and each
\* of them is a path of the chosen event's photos list
C28_SubsetOfEvent ==
    (last.op = "atprotocol" /\ last.event # None) =>
        /\ Len(last.photo_list) <= AttachmentLimit
        /\ Range(last.photo_list) \subseteq Range(get_event(events, last.event)[1].photos)

\* the events no Bluesky post of the table names
NeverPosted(evs, psts) ==
    {e \in EventNamesOf(evs) :
        \A k \in 1..Len(psts) : psts[k].where = "Bluesky" => psts[k].event # e}

\* C30: in a posting run without --allow the events offered are the events
\* without a Bluesky post while there is one, and all events once every event
\* has been posted; so a run that posts an event a second time finds every
\* event posted
C30_UnpostedFirst ==
    [][(last'.op = "atprotocol" /\ ~ last'.allow /\ events # <<>>)
       => /\ last'.offered = IF NeverPosted(events, posts) # {}
                             THEN NeverPosted(events, posts)
                             ELSE EventNamesOf(events)
          /\ last'.event \in last'.offered
          /\ (last'.outcome = "posted" /\ last'.event \notin NeverPosted(events, posts))
                => NeverPosted(events, posts) = {}]_vars

\* a run without --allow has posted an event a second time, after each of
\* the two events had been posted once
C30_Witness ==
    /\ last.op = "atprotocol"
    /\ ~ last.allow
    /\ last.outcome = "posted"
    /\ Len(posts) = 3
    /\ Cardinality(EventNamesOf(events)) = 2
    /\ \A e \in EventNamesOf(events) : \E k \in 1..2 : posts[k].event = e
    /\ posts[3].event = last.event

\* C14: a posting run for an event of more than 4 photos without any ranking
\* entry does not call send_images and writes no post
C14_FailClosed ==
    [][(/\ last'.op = "atprotocol"
        /\ last'.event # None
        /\ Len(get_event(events, last'.event)[1].photos) > AttachmentLimit
        /\ EntriesOf(last'.event) = <<>>)
       => (~ last'.sent /\ posts' = posts)]_vars

C14_Witness ==
    /\ OverCapacity
    /\ EntriesOf(last.event) = <<>>
    /\ LoggedIn(last.login)
    /\ last.outcome = "no_images"
    /\ last.photo_list = <<>>

\* C15: every post record has a uri
C15_DurableOnly == \A k \in 1..Len(posts) : posts[k].uri # None

\* C16: a posting run whose login fails, or whose send_images raises, leaves
\* the posts as they were, and after a failed login send_images is not called
C16_FailureKeepsPosts ==
    [][(last'.op = "atprotocol" /\ last'.event # None)
       => /\ (last'.login # "ok" \/ last'.response = "raises") => posts' = posts
          /\ last'.login # "ok" => ~ last'.sent]_vars

C16_Witness ==
    /\ last.op = "atprotocol"
    /\ last.event # None
    /\ last.login = "no_session"
    /\ last.outcome = "login_failed"
    /\ get_event(events, last.event)[1].photos # <<>>

-----------------------------------------------------------------------------
(* Properties of the resolver of photos held by several events *)

\* the steps that run the resolver on its own
ResolverOps == {"handle_duplicate_events", "remove_photo_from_event"}

\* the selection as a number, when it is one
SelectionNumber(keep) ==
    IF keep.kind = "int" THEN keep.n ELSE DigitsValue(keep.s, 0)

\* a selection that names one of n events: a number of 1..n
ValidSelection(keep, n) ==
    /\ keep.kind = "int" \/ (keep.kind = "str" /\ isdigit(keep.s))
    /\ SelectionNumber(keep) \in 1..n

\* C3: the resolver called with a selection that is absent, zero, not a
\* number or outside 1..len(events) leaves the photos of every event as they
\* were
C3_NoOpLaw ==
    [][(last'.op \in ResolverOps /\ ~ ValidSelection(last'.keep, last'.n)) =>
          /\ Len(events') = Len(events)
          /\ \A k \in 1..Len(events) : events'[k].photos = events[k].photos]_vars

\* C4: the resolver called with a valid selection i leaves the path in the
\* i-th of the events that held it (storage order) and in no other event, and
\* leaves every other path of every event in place and in order
C4_ValidSelection ==
    [][(last'.op \in ResolverOps /\ ValidSelection(last'.keep, last'.n)) =>
          LET photo_path == RelativePath(last'.file)
              list == find_events_with_photo(events, photo_path)
              kept == list[SelectionNumber(last'.keep)].event
          IN /\ Len(events') = Len(events)
             /\ \A k \in 1..Len(events) :
                   /\ events'[k].event = events[k].event
                   /\ events'[k].photos =
                         IF events[k].event = kept THEN events[k].photos
                         ELSE SelectSeq(events[k].photos, LAMBDA q : q # photo_path)
             /\ \E k \in 1..Len(events') :
                   /\ events'[k].event = kept
                   /\ photo_path \in Range(events'[k].photos)]_vars

\* handle_duplicate_events has resolved a path held by two events in favour
\* of the second: one event holds it now
C4_Witness ==
    /\ last.op = "handle_duplicate_events"
    /\ last.n = 2
    /\ last.keep = KeepStr(<<"2">>)
    /\ Len(find_events_with_photo(events, RelativePath(last.file))) = 1

-----------------------------------------------------------------------------
(* Properties of the ingestion of events *)

\* the outcomes of a location step that has called item_duplicate and
\* same_event
Resolved == {"skipped_duplicate", "AttributeError", "appended", "already", "created"}

\* the clustering window, in ticks
Window == MaxTimeDeltaInHours * TicksPerHour

\* file g is in the photos of some event of evs
Held(evs, g) == find_events_with_photo(evs, RelativePath(g)) # <<>>

\* the location the Geo Index gives the coordinates of file g
LocationOf(g) == find_location(locations, Exif(g).lat, Exif(g).lon, DefaultMaxDistance)

\* some event of evs holds both files
ShareEvent(evs, f, g) ==
    \E k \in 1..Len(evs) :
        {RelativePath(f), RelativePath(g)} \subseteq Range(evs[k].photos)

\* two different events of evs hold f and g
DistinctEvents(evs, f, g) ==
    \E j, k \in 1..Len(evs) :
        /\ j # k
        /\ RelativePath(f) \in Range(evs[j].photos)
        /\ RelativePath(g) \in Range(evs[k].photos)

\* a location step that overwrote no event and, when same_event matched,
\* wrote to the event it matched
Regular ==
    \/ last'.outcome = "created" /\ Len(events') = Len(events) + 1
    \/ last'.outcome \in {"appended", "already"} /\ last'.name = last'.same.event

C2_DistinctEvents ==
    [][(/\ last'.op = "location"
        /\ last'.outcome \in Completed
        /\ SettingOn(settings, "auto_event")) =>
          \A g \in AssetFiles \ {last'.file} :
              (/\ Held(events, g)
               /\ LocationOf(g) = last'.location
               /\ Abs(Exif(last'.file).date - Exif(g).date) >= Window)
              => DistinctEvents(events', last'.file, g)]_vars

\* C5: item_duplicate is true exactly when some event has the date, the
\* latitude and the longitude of the photo and a location is stored for the
\* latitude and the longitude
C5_DuplicateConjunction ==
    [][(last'.op = "location" /\ last'.outcome \in Resolved) =>
          LET exif == Exif(last'.file)
          IN last'.dup <=>
                /\ \E k \in 1..Len(events) :
                      /\ events[k].date = exif.date
                      /\ events[k].latitude = exif.lat
                      /\ events[k].longitude = exif.lon
                /\ \E k \in 1..Len(locations') :
                      /\ locations'[k].latitude = exif.lat
                      /\ locations'[k].longitude = exif.lon]_vars

\* the events of location whose date is less than the window from date
Matching(evs, date, location) ==
    {k \in 1..Len(evs) :
        evs[k].location = location /\ Abs(date - evs[k].date) < Window}

\* C10: same_event returns the stored date and the name of the first event,
\* in storage order, of the given location whose date is less than 8 hours
\* from the timestamp, before it or after it, with True; and the timestamp,
\* None and False when there is no such event
C10_SameEventContract ==
    [][(last'.op = "location" /\ last'.outcome \in Resolved) =>
          LET date == Exif(last'.file).date
              matching == Matching(events, date, last'.location)
          IN IF matching = {}
             THEN last'.same = [date |-> date, event |-> None, same |-> FALSE]
             ELSE last'.same = [date |-> events[Min(matching)].date,
                                event |-> events[Min(matching)].event,
                                same |-> TRUE]]_vars

\* same_event has matched a photo taken before the date of the event, past
\* an earlier event of another location that is as close in time
C10_Witness ==
    /\ last.op = "location"
    /\ last.outcome \in Resolved
    /\ last.same.same
    /\ Exif(last.file).date < last.same.date
    /\ \E k \in 1..Len(events) :
          /\ events[k].location # last.location
          /\ events[k].event # last.same.event
          /\ Abs(Exif(last.file).date - events[k].date) < Window

\* C19: a location step leaves the stored date of every event that existed
\* before it as it was, whether it appends to an event or creates one
C19_AnchorFixed ==
    [][last'.op = "location"
       => \A k \in 1..Len(events) :
             /\ k <= Len(events')
             /\ events'[k].event = events[k].event
             /\ events'[k].date = events[k].date]_vars

\* C20: a location step removes no path from the photos of an event that
\* existed before it, and leaves no such event with a shorter list
C20_NeverDrops ==
    [][last'.op = "location"
       => \A k \in 1..Len(events) :
             /\ k <= Len(events')
             /\ events'[k].event = events[k].event
             /\ Range(events[k].photos) \subseteq Range(events'[k].photos)
             /\ Len(events[k].photos) <= Len(events'[k].photos)]_vars

\* C22: a location step for a photo with coordinates that find_location
\* does not know leaves a location with the name the operator entered and
\* the photo's coordinates, and goes on to resolve the event
C22_LocationCreated ==
    [][(/\ last'.op = "location"
        /\ Exif(last'.file).kind = "ok"
        /\ Exif(last'.file).lat # 0
        /\ Exif(last'.file).lon # 0
        /\ LocationOf(last'.file) = None)
       => /\ \E i \in 1..Len(locations') :
                /\ locations'[i].latitude = Exif(last'.file).lat
                /\ locations'[i].longitude = Exif(last'.file).lon
                /\ locations'[i].name = last'.location
          /\ last'.outcome \in Resolved]_vars

\* C24: each photo path is in the photos of at most one event
C24_AtMostOneEvent ==
    \A f \in AssetFiles : Len(find_events_with_photo(events, RelativePath(f))) <= 1

\* the place of path p in the list
IndexIn(list, p) == Min({i \in 1..Len(list) : list[i] = p})

\* C25: no event holds a path twice, and the paths of an event are in the
\* order of their first insertion: two paths that a step leaves in the list
\* of an event keep their order
C25_NoRepeatedPath ==
    [][/\ \A k \in 1..Len(events') :
             \A i, j \in 1..Len(events'[k].photos) :
                events'[k].photos[i] = events'[k].photos[j] => i = j
       /\ \A k \in 1..Len(events) :
             /\ k <= Len(events')
             /\ \A p, q \in Range(events[k].photos) \cap Range(events'[k].photos) :
                   IndexIn(events[k].photos, p) < IndexIn(events[k].photos, q)
                   => IndexIn(events'[k].photos, p) < IndexIn(events'[k].photos, q)]_vars

\* C29: a location step in which same_event matched event N, and which is
\* not skipped as a duplicate, leaves the path in the photos of N and adds
\* it to no other event; it does not fail to find the event
C29_MatchedEvent ==
    [][(last'.op = "location" /\ last'.same.same /\ ~ last'.dup)
       => /\ last'.outcome \in {"appended", "already"}
          /\ \A k \in 1..Len(events') :
                events'[k].event = last'.same.event
                => RelativePath(last'.file) \in Range(events'[k].photos)
          /\ \A k \in 1..Len(events) :
                (/\ k <= Len(events')
                 /\ events'[k].event # last'.same.event
                 /\ RelativePath(last'.file) \notin Range(events[k].photos))
                => RelativePath(last'.file) \notin Range(events'[k].photos)]_vars

\* no location step changes the Geo Index: the one call that would store a
\* location on a miss raises (see C22), so the locations an ingestion leaves
\* are those that were stored by other means
IngestionStoresNoLocation ==
    [][last'.op = "location" => locations' = locations]_vars

-----------------------------------------------------------------------------
(* Properties of the Geo Index *)

\* the stored locations strictly closer to (lat, lon) than max_distance
Within(lat, lon, max_distance) ==
    {i \in 1..Len(locations) :
        Distance2(lat, lon, locations[i].latitude, locations[i].longitude)
            < max_distance * max_distance}

\* C9: find_location returns the name of a stored location at minimal
\* distance among those strictly within the threshold, the first of them in
\* storage order when several are equally close, and None exactly when no
\* stored location is strictly within the threshold
C9_NearestLocation ==
    last.op = "find_location" =>
        LET within == Within(last.lat, last.lon, last.max_distance)
            d(i) == Distance2(last.lat, last.lon,
                              locations[i].latitude, locations[i].longitude)
        IN IF within = {}
           THEN last.ret = None
           ELSE \E i \in within :
                   /\ last.ret = locations[i].name
                   /\ \A j \in within : d(i) <= d(j)
                   /\ \A j \in within : d(j) = d(i) => i <= j

\* two stored locations equally close and within the default threshold, and
\* the lookup returned the first of them
C9_Witness ==
    /\ last.op = "find_location"
    /\ last.max_distance = DefaultMaxDistance
    /\ Len(locations) = 2
    /\ Within(last.lat, last.lon, last.max_distance) = {1, 2}
    /\ Distance2(last.lat, last.lon, locations[1].latitude, locations[1].longitude)
         = Distance2(last.lat, last.lon, locations[2].latitude, locations[2].longitude)
    /\ last.ret = locations[1].name

-----------------------------------------------------------------------------
(* Properties of the photo records *)

\* the records of the table stored for file f, under either form of its path
RecordsOf(f) ==
    SelectSeq(photos, LAMBDA d : d.path \in {RelativePath(f), FilePath(f)})

\* C6: when the images step finds the record of a file only under its
\* absolute path, after the write the table holds exactly one record for the
\* file and its path is the project-relative path
C6_RoundTripPath ==
    (last.op = "images" /\ last.found = "file_path") =>
        /\ Len(RecordsOf(last.file)) = 1
        /\ RecordsOf(last.file)[1].path = RelativePath(last.file)
        /\ get_photo(photos, FilePath(last.file)) = None

\* C21: when the images step sees a file that had no record under either of
\* its paths, the record it writes is keyed by the project-relative path and
\* none is kept under the absolute path
C21_FirstKeyedRelative ==
    (last.op = "images" /\ last.found = "none") =>
        /\ get_photo(photos, RelativePath(last.file)) # None
        /\ get_photo(photos, FilePath(last.file)) = None

\* C27: the settings table never holds more than one record, and right after
\* an upsert_settings call the settings property returns the record given
C27_SettingsSingleton ==
    /\ Len(settings) <= 1
    /\ last.op = "upsert_settings" =>
          /\ Len(settings) = 1
          /\ settings_doc(settings) = last.doc

\* C7: the photos table holds at most one record per path, and an
\* upsert_photo that repeats the record of the upsert_photo before it leaves
\* the table as it was
C7_IdempotentUpsert ==
    /\ \A i, j \in 1..Len(photos) : photos[i].path = photos[j].path => i = j
    /\ (last.op = "upsert_photo" /\ last.repeat) => ~ last.changed

\* the same record was given to upsert_photo twice in a row, next to a record
\* stored under another path
C7_Witness ==
    /\ last.op = "upsert_photo"
    /\ last.repeat
    /\ Len(photos) > 1
    /\ get_photo(photos, last.photo.path) # None

\* C8: after upsert_photo on a path that has a stored record, the stored
\* record is the record given, field for field
C8_ReplacesRecord ==
    (last.op = "upsert_photo" /\ last.existed) =>
        LET stored == get_photo(photos, last.photo.path)[1]
        IN /\ DOMAIN stored = DOMAIN last.photo
           /\ \A k \in DOMAIN last.photo : stored[k] = last.photo[k]

====
